---- MODULE Spec2Model ----
(***************************************************************************)
(* A model of glue-ginga: the Ginga "Glue" global plugin                   *)
(* (glue_ginga/plugins/Glue.py: the hub listener and the plugin's button   *)
(* handlers) and the region-of-interest handling of the Ginga viewer for   *)
(* Glue (glue_ginga/qt/viewer_widget.py, glue_ginga/qt/mouse_modes.py).    *)
(*                                                                         *)
(* Spec    : the plugin, its hub listener and the Glue sessions it starts. *)
(* SpecROI : the viewer's canvas, its draw tools and the draw callbacks.   *)
(***************************************************************************)
EXTENDS Integers, Sequences, FiniteSets, TLC

\* ------------------------------------------------------------------ bounds
\* Glue applications started over a run (qglue() calls).
MaxApps == 2
\* Datasets held at a time by the data collections of the running
\* applications, all together.
MaxData == 2
\* Dimensions of a dataset handed to the conversion (0..MaxDim).
MaxDim == 2
\* Components of a dataset handed to the conversion (0..MaxComps).
MaxComps == 1
\* Shapes drawn on the viewer's canvas over a run (tags given out).
MaxTags == 2
\* z-orders a layer state takes (1..MaxZOrder).
MaxZOrder == 2
\* Sides of the 2D slice of a dataset, in pixels (1..MaxSide).
MaxSide == 2
\* A colour component is one of 0/ColorSteps .. ColorSteps/ColorSteps.
ColorSteps == 2
\* Positional arguments of a call on a wrapper, after self (0..MaxArgs).
MaxArgs == 1
\* Pixel values of a dataset (0..MaxValue).
MaxValue == 1

\* --------------------------------------------------------------- universes
None == 0
Apps == 1..MaxApps
Labels == {"a", "b"}

AddMsg == "DataCollectionAddMessage"
DeleteMsg == "DataCollectionDeleteMessage"
ClosedMsg == "ApplicationClosedMessage"

\* A Glue dataset as the listener reads it: label, ndim, its components in
\* order (numeric or categorical), the attributes its coords object has
\* (none for Coordinates, header and wcs for WCSCoordinates), and the
\* application whose data collection holds it.
CompSeqs == UNION {[1..n -> {"numeric", "categorical"}] : n \in 0..MaxComps}

Datasets ==
    {d \in [label : Labels, ndim : 0..MaxDim, comps : CompSeqs,
            coords : SUBSET {"header", "wcs"}, app : Apps] :
        d.comps = <<>> => d.ndim = 0}

\* The datasets a running application adds to its collection: an empty
\* one (no component), a table (one numeric component of one dimension,
\* plain Coordinates) or an image (one numeric component of two dimensions,
\* WCSCoordinates). The listener tells ndim = 1 from the rest and an empty
\* component list from a non-empty one.
HubDatasets ==
    {d \in Datasets :
        \/ d.ndim = 0 /\ d.comps = <<>> /\ d.coords = {}
        \/ d.ndim = 1 /\ d.comps = <<"numeric">> /\ d.coords = {}
        \/ d.ndim = 2 /\ d.comps = <<"numeric">>
                      /\ d.coords = {"header", "wcs"}}

\* A Ginga object: AstroImage or AstroTable (kind), its name, whether the
\* image carries a header in its metadata and whether a WCS was loaded, the
\* table's columns, and the session the wrapped data belongs to.
NoObj ==
    [kind |-> "none", name |-> "", header |-> FALSE, wcs |-> FALSE,
     cols |-> <<>>, app |-> None]

\* ------------------------------------------------------------------- state
VARIABLES
    glue_app,    \* Glue.glue_app: None or the application of the session
    napps,       \* applications created so far by qglue()
    live,        \* applications whose window is open
    subs,        \* hub subscriptions of glue_hl: <<hub's app, message type>>
    dc,          \* per application: data_collection, as the datasets' labels
    datasrc,     \* glue_hl.datasrc: label -> stored object (NoObj: no key)
    data_names,  \* Glue.data_names
    w,           \* the plugin's widgets: buttons enabled, drop-down
    gui_up,      \* Glue.gui_up
    last,        \* what the last handler did (observation only)
    \* the viewer (viewer_widget.py)
    opn_obj,     \* GingaViewer.opn_obj: the installed tool, or "none"
    roi_tag,     \* GingaViewer.roi_tag: None or a tag
    canvas,      \* the canvas: draw state and the tags of the shapes on it
    tool_state,  \* spectrum and slicer tool: _shape, and the shape kept
    ntags,       \* tags given out so far
    vlast,       \* what the last viewer callback did (observation only)
    \* a listener called on its own
    msg,         \* the dataset-added message handed to _data_added_cb, and
                 \* what the call gave back
    \* the layer artists (layer_artist.py)
    layer_state, \* per artist: state.visible and state.zorder
    props,       \* per artist: its own visible and zorder properties,
                 \* enabled, and the attributes it was disabled for
    tagged,      \* artist._canvas: tag -> the object under it (NoTagged: none)
    mask_ok,     \* whether layer.to_mask can be computed now
    img_tag,     \* the tag under which the host viewer keeps its image
    alast,       \* what the last artist call did (observation only)
    collection,  \* the datasets in the data collection of the viewer's
                 \* application
    shown,       \* the datasets that have a layer artist in the viewer
    viewer,      \* the viewer: "none" before it is made, "open" while it
                 \* is among the application's viewers, "closed" after
    \* the image wrappers (DataImage, SubsetImage)
    sstate,      \* the layer state they read: slice shape, mask, data,
                 \* colour, whether the mask is computable, the host's cache
    sres,        \* the last call on a wrapper and what it returned
    \* the viewer's modes (viewer_widget.py)
    checked,     \* the mode buttons of the toolbar that are checked
    kbdmode,     \* the current mode of the viewer's bindmap ("none": None)
    mode_w,      \* GingaViewer.mode_w: "none" or a button
    mlast        \* what the last mode callback did (observation only)

pvars == <<glue_app, napps, live, subs, dc, datasrc, data_names, w, gui_up, last>>
vvars == <<opn_obj, roi_tag, canvas, tool_state, ntags, vlast>>
gvars == <<collection, shown, viewer>>
lvars == <<layer_state, props, tagged, mask_ok, img_tag, alast,
           collection, shown, viewer>>
svars == <<sstate, sres>>
mvars == <<checked, kbdmode, mode_w, mlast>>
vars == <<glue_app, napps, live, subs, dc, datasrc, data_names, w, gui_up, last,
          opn_obj, roi_tag, canvas, tool_state, ntags, vlast, msg,
          layer_state, props, tagged, mask_ok, img_tag, alast,
          collection, shown, viewer, sstate, sres,
          checked, kbdmode, mode_w, mlast>>

\* The record of one handler run: the handler, the label and ndim of the
\* dataset of a hub message, the error messages shown (fv.show_error), the
\* exception that left the handler, the exception raised inside it (caught
\* or not), the listener callbacks fired, the add_data calls made, the
\* error_no_glue call made, the object added to the Ginga channel, and
\* whether Get Data was enabled when the handler began.
Quiet(op) ==
    [op |-> op, label |-> "", ndim |-> -1, shown |-> <<>>, raised |-> "none",
     failed |-> "none", fired |-> <<>>, add_calls |-> 0, reset |-> "none",
     added |-> NoObj, pre_get |-> FALSE]

\* ---------------------------------------------------------- GingaHubListener
\* Datasrc(length=0): an unbounded keyed store.
datasrc_has(ds, name) == ds[name] # NoObj

\* _data_to_image: the first component id's data wrapped in an AstroImage.
_data_to_image(data) ==
    IF Len(data.comps) = 0
    THEN [exc |-> "IndexError", obj |-> NoObj]
    ELSE [exc |-> "none",
          obj |-> [kind |-> "image", name |-> "",
                   header |-> "header" \in data.coords,
                   wcs |-> "wcs" \in data.coords,
                   cols |-> <<>>, app |-> data.app]]

\* _data_to_table: one column per visible component.
_data_to_table(data) ==
    [exc |-> "none",
     obj |-> [kind |-> "table", name |-> "", header |-> FALSE, wcs |-> FALSE,
              cols |-> [i \in 1..Len(data.comps) |->
                           IF data.comps[i] = "categorical" THEN "labels"
                           ELSE "data"],
              app |-> data.app]]

\* _data_added_cb up to make_callback: the new store and the callback made.
\* `stored` is what get_data(name) returns when the callback runs.
_data_added_cb(ds, data) ==
    LET conv == IF data.ndim = 1 THEN _data_to_table(data)
                ELSE _data_to_image(data)
        image == [conv.obj EXCEPT !.name = data.label]
        ds1 == [ds EXCEPT ![data.label] = image]
    IN  IF conv.exc # "none"
        THEN [exc |-> conv.exc, datasrc |-> ds, fired |-> <<>>]
        ELSE [exc |-> "none", datasrc |-> ds1,
              fired |-> << [cb |-> "data_in", obj |-> image,
                            stored |-> ds1[data.label]] >>]

\* _data_removed_cb up to make_callback: datasrc.remove raises KeyError for a
\* missing key.
_data_removed_cb(ds, name) ==
    IF ~datasrc_has(ds, name)
    THEN [exc |-> "KeyError", datasrc |-> ds, fired |-> <<>>]
    ELSE [exc |-> "none", datasrc |-> [ds EXCEPT ![name] = NoObj],
          fired |-> << [cb |-> "data_out", obj |-> ds[name],
                        stored |-> NoObj] >>]

\* get_data: datasrc[name], KeyError for a missing key.
get_data(ds, name) ==
    IF datasrc_has(ds, name) THEN [exc |-> "none", obj |-> ds[name]]
    ELSE [exc |-> "KeyError", obj |-> NoObj]

\* connect_hub: the three subscriptions on the hub of application a.
connect_hub_two(s, a) == s \cup {<<a, AddMsg>>, <<a, DeleteMsg>>}

connect_hub(s, a) == s \cup {<<a, AddMsg>>, <<a, DeleteMsg>>, <<a, ClosedMsg>>}

\* -------------------------------------------------------------------- Glue
\* build_gui: Start Glue enabled, the other three disabled, empty drop-down.
build_gui ==
    [start_glue |-> TRUE, stop_glue |-> FALSE, put_data |-> FALSE,
     get_data |-> FALSE, dataitem |-> <<>>, index |-> -1]

NoSession == "No glue session running!"

\* error_no_glue: the widgets and data_names after it, and what it showed.
error_no_glue_loud(wv, verbose) ==
    [w |-> [wv EXCEPT !.start_glue = TRUE, !.stop_glue = FALSE,
                      !.put_data = FALSE, !.get_data = FALSE,
                      !.dataitem = <<>>, !.index = -1],
     data_names |-> <<>>,
     shown |-> <<NoSession>>]

error_no_glue_keeps(wv, verbose) ==
    [w |-> [wv EXCEPT !.start_glue = TRUE, !.stop_glue = FALSE,
                      !.put_data = FALSE,
                      !.dataitem = <<>>, !.index = -1],
     data_names |-> <<>>,
     shown |-> IF verbose THEN <<NoSession>> ELSE <<>>]

error_no_glue(wv, verbose) ==
    [w |-> [wv EXCEPT !.start_glue = TRUE, !.stop_glue = FALSE,
                      !.put_data = FALSE, !.get_data = FALSE,
                      !.dataitem = <<>>, !.index = -1],
     data_names |-> <<>>,
     shown |-> IF verbose THEN <<NoSession>> ELSE <<>>]

\* _adj_data_list: the drop-down and data_names rebuilt from the data
\* collection of glue_app. With glue_app None the attribute access raises
\* inside the callback.
_adj_data_list(app, dcs, wv, names) ==
    IF app = None
    THEN [exc |-> "AttributeError", w |-> wv, data_names |-> names]
    ELSE IF Len(dcs[app]) = 0
    THEN [exc |-> "none",
          w |-> [wv EXCEPT !.dataitem = <<>>, !.index = -1,
                           !.get_data = FALSE],
          data_names |-> <<>>]
    ELSE [exc |-> "none",
          w |-> [wv EXCEPT !.dataitem = dcs[app], !.index = 0,
                           !.get_data = TRUE],
          data_names |-> dcs[app]]

\* A listener callback result handed on to the plugin's data_added_cb /
\* data_removed_cb (both call _adj_data_list); make_callback logs and drops
\* an exception of the callback. Nothing runs when the listener raised.
Deliver(res, app, dcs, wv, names) ==
    IF res.exc # "none" THEN [w |-> wv, data_names |-> names]
    ELSE LET adj == _adj_data_list(app, dcs, wv, names)
         IN  [w |-> adj.w, data_names |-> adj.data_names]

\* ------------------------------------------------------------ hub messages
\* The datasets in the data collections, all together.
RECURSIVE SumLen(_, _)
SumLen(f, S) ==
    IF S = {} THEN 0
    ELSE LET x == CHOOSE y \in S : TRUE
         IN  Len(f[x]) + SumLen(f, S \ {x})

TotalData == SumLen(dc, Apps)

\* An application the plugin lets go of takes its data collection with it.
Gone(dcs, a) == IF a = None THEN dcs ELSE [dcs EXCEPT ![a] = <<>>]

\* A dataset is added to the data collection of a running application (by
\* its user): the collection appends it, then broadcasts.
HubDataAdded(a, d) ==
    /\ a \in live
    /\ d.app = a
    /\ TotalData < MaxData
    /\ LET dc1 == [dc EXCEPT ![a] = Append(@, d.label)]
           res == IF <<a, AddMsg>> \in subs THEN _data_added_cb(datasrc, d)
                  ELSE [exc |-> "none", datasrc |-> datasrc, fired |-> <<>>]
           dlv == IF <<a, AddMsg>> \in subs
                  THEN Deliver(res, glue_app, dc1, w, data_names)
                  ELSE [w |-> w, data_names |-> data_names]
       IN  /\ dc' = dc1
           /\ datasrc' = res.datasrc
           /\ w' = dlv.w
           /\ data_names' = dlv.data_names
           /\ last' = [Quiet("data_added") EXCEPT
                          !.op = IF <<a, AddMsg>> \in subs THEN @
                                 ELSE "unheard",
                          !.label = d.label, !.ndim = d.ndim,
                          !.raised = res.exc, !.failed = res.exc,
                          !.fired = res.fired]
    /\ UNCHANGED <<glue_app, napps, live, subs, gui_up>>
    /\ UNCHANGED <<vvars, msg, lvars, svars, mvars>>

\* The dataset at position i is removed from the data collection of a
\* running application: the collection drops it, then broadcasts.
RemoveAt(s, i) == [j \in 1..(Len(s) - 1) |-> IF j < i THEN s[j] ELSE s[j + 1]]

HubDataRemoved(a, i) ==
    /\ a \in live
    /\ i \in 1..Len(dc[a])
    /\ LET dc1 == [dc EXCEPT ![a] = RemoveAt(@, i)]
           res == IF <<a, DeleteMsg>> \in subs
                  THEN _data_removed_cb(datasrc, dc[a][i])
                  ELSE [exc |-> "none", datasrc |-> datasrc, fired |-> <<>>]
           dlv == IF <<a, DeleteMsg>> \in subs
                  THEN Deliver(res, glue_app, dc1, w, data_names)
                  ELSE [w |-> w, data_names |-> data_names]
       IN  /\ dc' = dc1
           /\ datasrc' = res.datasrc
           /\ w' = dlv.w
           /\ data_names' = dlv.data_names
           /\ last' = [Quiet("data_removed") EXCEPT
                          !.op = IF <<a, DeleteMsg>> \in subs THEN @
                                 ELSE "unheard",
                          !.label = dc[a][i],
                          !.raised = res.exc, !.failed = res.exc,
                          !.fired = res.fired]
    /\ UNCHANGED <<glue_app, napps, live, subs, gui_up>>
    /\ UNCHANGED <<vvars, msg, lvars, svars, mvars>>

\* The user closes the window of a running application: _app_closed_cb makes
\* 'app_closed', and app_closed_cb drops the session and resets the widgets.
HubAppClosed(a) ==
    /\ a \in live
    /\ live' = live \ {a}
    /\ dc' = IF <<a, ClosedMsg>> \in subs THEN Gone(dc, a) ELSE dc
    /\ IF <<a, ClosedMsg>> \in subs
       THEN LET r == error_no_glue(w, FALSE)
            IN  /\ glue_app' = None
                /\ w' = r.w
                /\ data_names' = r.data_names
                /\ last' = [Quiet("app_closed") EXCEPT
                               !.shown = r.shown, !.reset = "quiet",
                               !.fired = << [cb |-> "app_closed",
                                             obj |-> NoObj,
                                             stored |-> NoObj] >>]
       ELSE /\ UNCHANGED <<glue_app, w, data_names>>
            /\ last' = Quiet("unheard")
    /\ UNCHANGED <<napps, subs, datasrc, gui_up>>
    /\ UNCHANGED <<vvars, msg, lvars, svars, mvars>>

\* ----------------------------------------------------------------- buttons
\* qglue: a new GlueApplication over an empty DataCollection.
qglue(n) == n + 1

\* The hub of a GlueApplication's data collection.
hub_of(a) == a

\* start_glue_cb's button toggles.
start_toggles(wv) ==
    [wv EXCEPT !.start_glue = FALSE, !.stop_glue = TRUE, !.put_data = TRUE]

\* Start Glue is pressed.
start_glue_cb ==
    /\ gui_up
    /\ w.start_glue
    /\ napps < MaxApps
    /\ LET a == qglue(napps)
           hub == hub_of(a)
       IN  /\ napps' = a
           /\ glue_app' = a
           /\ live' = live \cup {a}
           /\ dc' = [dc EXCEPT ![a] = <<>>]
           /\ subs' = IF hub # None THEN connect_hub(subs, hub) ELSE subs
    /\ w' = start_toggles(w)
    /\ last' = [Quiet("start_glue") EXCEPT !.pre_get = w.get_data]
    /\ UNCHANGED <<datasrc, data_names, gui_up>>
    /\ UNCHANGED <<vvars, msg, lvars, svars, mvars>>

\* stop_glue_cb runs; deleteLater schedules the window's deletion, or
\* raises because the window is gone already: either way it is gone after.
stop_glue_cb(del_raises) ==
    /\ gui_up
    /\ LET r == error_no_glue(w, FALSE)
       IN  /\ w' = r.w
           /\ data_names' = r.data_names
           /\ last' = [Quiet("stop_glue") EXCEPT !.shown = r.shown,
                                                 !.reset = "quiet",
                                                 !.failed =
                                                     IF glue_app # None
                                                        /\ del_raises
                                                     THEN "deleteLater"
                                                     ELSE "none"]
    /\ glue_app' = None
    /\ live' = live \ {glue_app}
    /\ dc' = Gone(dc, glue_app)
    /\ UNCHANGED <<napps, subs, datasrc, gui_up>>
    /\ UNCHANGED <<vvars, msg, lvars, svars, mvars>>

\* The images and tables a Ginga channel can hold as its current one.
ChannelObjects ==
    {[NoObj EXCEPT !.kind = k, !.name = n] :
        k \in {"image", "table"}, n \in Labels}

\* The Glue dataset put_data_cb builds from the current image or table: an
\* image goes with WCSCoordinates (header and wcs), a table as its columns.
put_dataset(image, app) ==
    IF image.kind = "image"
    THEN [label |-> image.name, ndim |-> 2, comps |-> <<"numeric">>,
          coords |-> {"header", "wcs"}, app |-> app]
    ELSE [label |-> image.name, ndim |-> 1, comps |-> <<"numeric">>,
          coords |-> {}, app |-> app]

\* Where the host frameworks may raise inside put_data_cb's try block:
\* building the Data/WCS objects, inside add_data, or in raise_().
PutFailures == {"none", "Data", "add_data", "raise_"}

SendError == "Error sending data to Glue"

\* The try block of put_data_cb when no handler catches: the exception that
\* leaves it, whether the dataset reached the collection, the add_data calls.
put_try(fail, listener_exc) ==
    [exc |-> IF fail # "none" THEN fail
             ELSE listener_exc,
     sent |-> fail \in {"none", "raise_"},
     add_calls |-> IF fail = "Data" THEN 0 ELSE 1]

\* put_data_cb's except clause: what propagates and what is shown.
put_except_silent(exc) ==
    [raised |-> "none", shown |-> <<>>, reset |-> exc # "none"]

put_except(exc) ==
    [raised |-> "none",
     shown |-> IF exc # "none" THEN <<SendError>> ELSE <<>>,
     reset |-> exc # "none"]

\* The checks put_data_cb makes before it sends, in the order it makes
\* them: the session, the current channel, the channel's current image.
put_guard_channel_first(app, channel, image) ==
    IF ~channel THEN "no_channel"
    ELSE IF app = None THEN "no_session"
    ELSE IF image = NoObj THEN "no_image"
    ELSE "send"

put_guard(app, channel, image) ==
    IF app = None THEN "no_session"
    ELSE IF ~channel THEN "no_channel"
    ELSE IF image = NoObj THEN "no_image"
    ELSE "send"

\* put_data_cb runs, with or without a current channel, with the current
\* image of that channel (NoObj: none).
put_data_cb(channel, image, fail) ==
    /\ gui_up
    /\ IF put_guard(glue_app, channel, image) = "no_session"
       THEN LET r == error_no_glue(w, TRUE)
            IN  /\ w' = r.w
                /\ data_names' = r.data_names
                /\ last' = [Quiet("put_data") EXCEPT !.shown = r.shown,
                                                     !.reset = "verbose"]
                /\ UNCHANGED <<dc, datasrc>>
       ELSE IF put_guard(glue_app, channel, image) = "no_channel"
       THEN /\ last' = [Quiet("put_data") EXCEPT
                           !.shown = <<"No active channel!">>]
            /\ UNCHANGED <<dc, datasrc, w, data_names>>
       ELSE IF put_guard(glue_app, channel, image) = "no_image"
       THEN /\ last' = [Quiet("put_data") EXCEPT
                           !.shown = <<"No data in channel">>]
            /\ UNCHANGED <<dc, datasrc, w, data_names>>
       ELSE /\ fail \in {"none", "raise_"} => TotalData < MaxData
            /\ LET d == put_dataset(image, glue_app)
                   dc1 == [dc EXCEPT ![glue_app] = Append(@, d.label)]
                   heard == <<glue_app, AddMsg>> \in subs
                   res == IF heard THEN _data_added_cb(datasrc, d)
                          ELSE [exc |-> "none", datasrc |-> datasrc,
                                fired |-> <<>>]
                   try == put_try(fail, res.exc)
                   dlv == IF try.sent /\ heard
                          THEN Deliver(res, glue_app, dc1, w, data_names)
                          ELSE [w |-> w, data_names |-> data_names]
                   exc == put_except(try.exc)
                   r == IF exc.reset THEN error_no_glue(dlv.w, TRUE)
                        ELSE [w |-> dlv.w, data_names |-> dlv.data_names,
                              shown |-> <<>>]
               IN  /\ dc' = IF try.sent THEN dc1 ELSE dc
                   /\ datasrc' = IF try.sent THEN res.datasrc ELSE datasrc
                   /\ w' = r.w
                   /\ data_names' = r.data_names
                   /\ last' = [Quiet("put_data") EXCEPT
                                  !.shown = exc.shown \o r.shown,
                                  !.raised = exc.raised,
                                  !.fired = IF try.sent THEN res.fired
                                            ELSE <<>>,
                                  !.add_calls = try.add_calls,
                                  !.failed = try.exc,
                                  !.reset = IF exc.reset THEN "verbose"
                                            ELSE "none"]
    /\ UNCHANGED <<glue_app, napps, live, subs, gui_up>>
    /\ UNCHANGED <<vvars, msg, lvars, svars, mvars>>

\* data_names[idx] as Python indexes a list: a negative idx counts from the
\* end, and an idx outside the list raises IndexError.
py_index(names, idx) ==
    LET pos == IF idx >= 0 THEN idx + 1 ELSE Len(names) + idx + 1
    IN  IF pos \in 1..Len(names)
        THEN [exc |-> "none", name |-> names[pos]]
        ELSE [exc |-> "IndexError", name |-> ""]

\* get_data_cb runs; add_fails: channel.add_image raises.
get_data_cb(channel, add_fails) ==
    /\ gui_up
    /\ IF glue_app = None
       THEN LET r == error_no_glue(w, TRUE)
            IN  /\ w' = r.w
                /\ data_names' = r.data_names
                /\ last' = [Quiet("get_data") EXCEPT !.shown = r.shown,
                                                     !.reset = "verbose"]
       ELSE IF ~channel
       THEN /\ last' = [Quiet("get_data") EXCEPT
                           !.shown = <<"No active channel!">>]
            /\ UNCHANGED <<w, data_names>>
       ELSE LET idx == w.index
                nm == py_index(data_names, idx)
                got == IF nm.exc = "none" THEN get_data(datasrc, nm.name)
                       ELSE [exc |-> nm.exc, obj |-> NoObj]
                exc == IF got.exc # "none" THEN got.exc
                       ELSE IF add_fails THEN "add_image" ELSE "none"
            IN  /\ last' = [Quiet("get_data") EXCEPT
                               !.raised = exc,
                               !.failed = exc,
                               !.added = IF exc = "none" THEN got.obj
                                         ELSE NoObj]
                /\ UNCHANGED <<w, data_names>>
    /\ UNCHANGED <<glue_app, napps, live, subs, dc, datasrc, gui_up>>
    /\ UNCHANGED <<vvars, msg, lvars, svars, mvars>>

\* The buttons of build_gui: an enabled button calls its handler when it is
\* pressed, a disabled one cannot be pressed.
press_stop_glue(del_raises) == w.stop_glue /\ stop_glue_cb(del_raises)

press_put_data(channel, image, fail) ==
    w.put_data /\ put_data_cb(channel, image, fail)

press_get_data(channel, add_fails) ==
    w.get_data /\ get_data_cb(channel, add_fails)

\* The user picks entry i of the drop-down.
select_item(i) ==
    /\ gui_up
    /\ i \in 0..(Len(w.dataitem) - 1)
    /\ i # w.index
    /\ w' = [w EXCEPT !.index = i]
    /\ last' = Quiet("select")
    /\ UNCHANGED <<glue_app, napps, live, subs, dc, datasrc, data_names, gui_up>>
    /\ UNCHANGED <<vvars, msg, lvars, svars, mvars>>

\* Close is pressed: close() clears the drop-down and has the host stop the
\* plugin; stop_global_plugin calls stop(), which only lowers gui_up (its
\* call of stop_glue_cb is commented out).
close ==
    /\ gui_up
    /\ w' = [w EXCEPT !.dataitem = <<>>, !.index = -1]
    /\ gui_up' = FALSE
    /\ last' = Quiet("close")
    /\ UNCHANGED <<glue_app, napps, live, subs, dc, datasrc, data_names>>
    /\ UNCHANGED <<vvars, msg, lvars, svars, mvars>>

\* The plugin is opened again: build_gui, then start().
start ==
    /\ ~gui_up
    /\ gui_up' = TRUE
    /\ IF glue_app # None
       THEN LET adj == _adj_data_list(glue_app, dc, start_toggles(build_gui),
                                      data_names)
            IN  /\ w' = adj.w
                /\ data_names' = adj.data_names
       ELSE /\ w' = build_gui
            /\ UNCHANGED data_names
    /\ last' = Quiet("start")
    /\ UNCHANGED <<glue_app, napps, live, subs, dc, datasrc>>
    /\ UNCHANGED <<vvars, msg, lvars, svars, mvars>>

\* ----------------------------------------------------------- layer artists
\* The two artists of a viewer: GingaImageLayer and GingaSubsetImageLayer.
Artists == {"image", "subset"}

ZOrders == 1..MaxZOrder

\* GingaSubsetImageLayer._tag: "layer%s_%s" % (layer.label, time()).
SubsetTag == "layer_subset"

\* artist._tag.
Tag(a) == IF a = "image" THEN "_image" ELSE SubsetTag

\* The tag under which ImageView.set_image keeps the viewer's image on its
\* canvas: a constant of the ginga build ('__image' in ImageView.py), which
\* the artist's '_image' may or may not equal.
HostImageTags == {"_image", "__image"}

CanvasTags == HostImageTags \cup {SubsetTag}

\* No object under a tag; an object before set_zorder has no z-order of
\* the layer state. n counts the objects on the canvas that were added
\* under the tag.
NoTagged == [on |-> FALSE, zorder |-> None, img |-> "none", n |-> 0]

\* canvas.get_object_by_tag raises KeyError when nothing carries the tag.
has_object(tg, tag) == tg[tag].on

\* canvas.add(obj, tag=tag).
canvas_add(tg, tag, img) ==
    [tg EXCEPT ![tag] = [on |-> TRUE, zorder |-> None, img |-> img,
                         n |-> @.n + 1]]

\* ImageView.set_image: the viewer's image object takes the image, and is
\* put on the canvas under the host's tag when it is not there yet.
set_image(tg, host_tag, img) ==
    IF has_object(tg, host_tag)
    THEN [tg EXCEPT ![host_tag].img = img]
    ELSE canvas_add(tg, host_tag, img)

\* GingaLayerArtist.clear: delete_objects_by_tag([_tag]) skips a tag that
\* nothing carries.
clear(tg, a) == [tg EXCEPT ![Tag(a)] = NoTagged]

\* GingaLayerArtist.update: the object under the artist's tag, when there
\* is one, takes the state's z-order.
base_update(tg, a, st) ==
    IF has_object(tg, Tag(a))
    THEN [tg EXCEPT ![Tag(a)].zorder = st.zorder]
    ELSE tg

\* _ensure_added of the two artists.
_ensure_added_always(tg, a, host_tag) ==
    IF a = "image" THEN set_image(tg, host_tag, "DataImage")
    ELSE canvas_add(tg, Tag(a), "SubsetImage")

_ensure_added(tg, a, host_tag) ==
    IF has_object(tg, Tag(a)) THEN tg
    ELSE IF a = "image" THEN set_image(tg, host_tag, "DataImage")
    ELSE canvas_add(tg, Tag(a), "SubsetImage")

\* GingaSubsetImageLayer._check_enabled: enable(), or
\* disable_invalid_attributes with the attributes of the exception.
_check_enabled_once(pr, ok) ==
    IF ok THEN pr
    ELSE [pr EXCEPT !.enabled = FALSE, !.disabled_for = "attributes"]

_check_enabled(pr, ok) ==
    IF ok THEN [pr EXCEPT !.enabled = TRUE, !.disabled_for = "none"]
    ELSE [pr EXCEPT !.enabled = FALSE, !.disabled_for = "attributes"]

\* update() of artist a: the canvas and the artist after it, and whether
\* it redrew.
update(tg, pr, a, st, ok, host_tag) ==
    LET tg1 == base_update(tg, a, st)
        pr1 == IF a = "subset" THEN _check_enabled(pr, ok) ELSE pr
    IN  IF st.visible
        THEN [tagged |-> _ensure_added(tg1, a, host_tag), props |-> pr1,
              redrawn |-> TRUE]
        ELSE [tagged |-> clear(tg1, a), props |-> pr1, redrawn |-> FALSE]

\* The record of one artist call: the call, the artists whose update() ran
\* and those that redrew.
AQuiet(op) == [op |-> op, updated |-> {}, redrawn |-> {}]

\* state.visible or artist.visible of artist a is set to another value:
\* keep_in_sync carries it to the other side, and the state's global
\* callback runs update().
set_visible(a, v) ==
    /\ v # layer_state[a].visible
    /\ LET st == [layer_state[a] EXCEPT !.visible = v]
           pr == [props[a] EXCEPT !.visible = v]
           u == update(tagged, pr, a, st, mask_ok, img_tag)
       IN  /\ layer_state' = [layer_state EXCEPT ![a] = st]
           /\ props' = [props EXCEPT ![a] = u.props]
           /\ tagged' = u.tagged
           /\ alast' = [AQuiet("set_visible") EXCEPT
                           !.updated = {a},
                           !.redrawn = IF u.redrawn THEN {a} ELSE {}]
    /\ UNCHANGED <<mask_ok, img_tag>>
    /\ UNCHANGED gvars
    /\ UNCHANGED <<pvars, vvars, msg, svars, mvars>>

\* state.zorder or artist.zorder of artist a is set to another value.
set_zorder(a, z) ==
    /\ z # layer_state[a].zorder
    /\ LET st == [layer_state[a] EXCEPT !.zorder = z]
           pr == [props[a] EXCEPT !.zorder = z]
           u == update(tagged, pr, a, st, mask_ok, img_tag)
       IN  /\ layer_state' = [layer_state EXCEPT ![a] = st]
           /\ props' = [props EXCEPT ![a] = u.props]
           /\ tagged' = u.tagged
           /\ alast' = [AQuiet("set_zorder") EXCEPT
                           !.updated = {a},
                           !.redrawn = IF u.redrawn THEN {a} ELSE {}]
    /\ UNCHANGED <<mask_ok, img_tag>>
    /\ UNCHANGED gvars
    /\ UNCHANGED <<pvars, vvars, msg, svars, mvars>>

\* A property of the viewer state changes: its global callback runs the
\* update() of every artist.
viewer_state_changed ==
    /\ LET u1 == update(tagged, props["image"], "image",
                        layer_state["image"], mask_ok, img_tag)
           u2 == update(u1.tagged, props["subset"], "subset",
                        layer_state["subset"], mask_ok, img_tag)
       IN  /\ props' = [props EXCEPT !["image"] = u1.props,
                                     !["subset"] = u2.props]
           /\ tagged' = u2.tagged
           /\ alast' = [AQuiet("viewer_state") EXCEPT
                           !.updated = Artists,
                           !.redrawn =
                               {a \in Artists :
                                   IF a = "image" THEN u1.redrawn
                                   ELSE u2.redrawn}]
    /\ UNCHANGED <<layer_state, mask_ok, img_tag>>
    /\ UNCHANGED gvars
    /\ UNCHANGED <<pvars, vvars, msg, svars, mvars>>

\* The subset's mask becomes computable or stops being so (its attributes
\* can or cannot be derived for the data).
mask_changed(ok) ==
    /\ ok # mask_ok
    /\ mask_ok' = ok
    /\ alast' = AQuiet("mask")
    /\ UNCHANGED <<layer_state, props, tagged, img_tag>>
    /\ UNCHANGED gvars
    /\ UNCHANGED <<pvars, vvars, msg, svars, mvars>>

\* GingaLayerArtist.remove.
remove(a) ==
    /\ tagged' = clear(tagged, a)
    /\ alast' = AQuiet("remove")
    /\ UNCHANGED <<layer_state, props, mask_ok, img_tag>>
    /\ UNCHANGED gvars
    /\ UNCHANGED <<pvars, vvars, msg, svars, mvars>>

\* The datasets of the viewer's application.
ViewerData == {"d1", "d2", "d3"}

\* Whether clear() of artist a raises: delete_objects_by_tag skips a tag
\* that nothing carries, so it does not.
clear_raises_strict(tg, a) == ~has_object(tg, Tag(a))

clear_raises(tg, a) == FALSE

\* app.new_data_viewer(GingaViewer, data=d): the viewer is made with a
\* GingaImageLayer for d, whose first update() runs.
new_data_viewer(d) ==
    /\ viewer = "none"
    /\ d \in collection
    /\ viewer' = "open"
    /\ shown' = {d}
    /\ LET u == update(tagged, props["image"], "image", layer_state["image"],
                       mask_ok, img_tag)
       IN  /\ tagged' = u.tagged
           /\ alast' = [AQuiet("new_data_viewer") EXCEPT
                           !.updated = {"image"},
                           !.redrawn = IF u.redrawn THEN {"image"} ELSE {}]
    /\ UNCHANGED <<layer_state, props, mask_ok, img_tag, collection>>
    /\ UNCHANGED <<pvars, vvars, msg, svars, mvars>>

\* w.add_data(d): another GingaImageLayer, for d.
add_data(d) ==
    /\ viewer = "open"
    /\ d \in collection \ shown
    /\ shown' = shown \cup {d}
    /\ LET u == update(tagged, props["image"], "image", layer_state["image"],
                       mask_ok, img_tag)
       IN  /\ tagged' = u.tagged
           /\ alast' = [AQuiet("add_data") EXCEPT
                           !.updated = {"image"},
                           !.redrawn = IF u.redrawn THEN {"image"} ELSE {}]
    /\ UNCHANGED <<layer_state, props, mask_ok, img_tag, collection, viewer>>
    /\ UNCHANGED <<pvars, vvars, msg, svars, mvars>>

\* dc.append(d).
dc_append(d) ==
    /\ d \notin collection
    /\ collection' = collection \cup {d}
    /\ alast' = AQuiet("dc_append")
    /\ UNCHANGED <<layer_state, props, tagged, mask_ok, img_tag, shown,
                   viewer>>
    /\ UNCHANGED <<pvars, vvars, msg, svars, mvars>>

\* dc.remove(d): the collection drops d and broadcasts; an open viewer that
\* shows d has the layer's artist removed (remove(), hence clear()), and
\* closes when that was its last layer. An exception of remove() leaves
\* the layer where it was.
dc_remove(d) ==
    /\ d \in collection
    /\ collection' = collection \ {d}
    /\ IF viewer = "open" /\ d \in shown
       THEN IF clear_raises(tagged, "image")
            THEN UNCHANGED <<tagged, shown, viewer>>
            ELSE /\ tagged' = clear(tagged, "image")
                 /\ shown' = shown \ {d}
                 /\ viewer' = IF shown \ {d} = {} THEN "closed" ELSE "open"
       ELSE UNCHANGED <<tagged, shown, viewer>>
    /\ alast' = AQuiet("dc_remove")
    /\ UNCHANGED <<layer_state, props, mask_ok, img_tag>>
    /\ UNCHANGED <<pvars, vvars, msg, svars, mvars>>

\* ---------------------------------------------------------- image wrappers
\* The step of the view _get_fast_data asks for: slice(None, None, 10).
FastStep == 10

\* Shapes of the 2D slice, <<rows, columns>>, and the pixels of a shape.
Shapes == (1..MaxSide) \X (1..MaxSide)

Pixels(shape) == (1..shape[1]) \X (1..shape[2])

\* An array: its dimensions and its elements by <<row, column>>.
Arrays(shape, values) ==
    {[dims |-> shape, pix |-> f] : f \in [Pixels(shape) -> values]}

\* color2rgb(layer_state.color): three components, each k/ColorSteps.
Colors == [1..3 -> 0..ColorSteps]

\* A view: one slice(None, None, step) per axis.
Views == {1, FastStep} \X {1, FastStep}

\* len(range(0, n, step)).
view_len(n, step) == (n + step - 1) \div step

view_shape(shape, view) ==
    <<view_len(shape[1], view[1]), view_len(shape[2], view[2])>>

\* arr[view].
take_view(arr, view) ==
    LET vs == view_shape(arr.dims, view)
    IN  [dims |-> vs,
         pix |-> [p \in Pixels(vs) |->
                     arr.pix[<<(p[1] - 1) * view[1] + 1,
                               (p[2] - 1) * view[2] + 1>>]]]

\* layer_state.get_sliced_data(view=view, use_cache=use_cache) of the host:
\* with use_cache it answers from its cache when it has one; otherwise it
\* computes the array now, which raises IncompatibleAttribute for a mask
\* that cannot be computed.
get_sliced_data(cached, cache, current, computable, view, use_cache) ==
    IF use_cache /\ cached
    THEN [exc |-> "none", arr |-> take_view(cache, view)]
    ELSE IF ~computable
    THEN [exc |-> "IncompatibleAttribute", arr |-> None]
    ELSE [exc |-> "none", arr |-> take_view(current, view)]

\* astype(np.uint8) of the non-negative number n/d.
uint8(n, d) == (n \div d) % 256

\* SubsetImage._rgb_from_mask: ones = mask * 0 + 255, alpha = mask * 127,
\* dstack of ones * r, ones * g, ones * b and alpha, as uint8.
_rgb_from_mask_masked(mask, color) ==
    [dims |-> mask.dims \o <<4>>,
     pix |-> [p \in DOMAIN mask.pix |->
                 LET m == IF mask.pix[p] THEN 1 ELSE 0
                     ones == m * 255
                     alpha == m * 127
                 IN  <<uint8(ones * color[1], ColorSteps),
                       uint8(ones * color[2], ColorSteps),
                       uint8(ones * color[3], ColorSteps),
                       uint8(alpha, 1)>>]]

_rgb_from_mask(mask, color) ==
    [dims |-> mask.dims \o <<4>>,
     pix |-> [p \in DOMAIN mask.pix |->
                 LET m == IF mask.pix[p] THEN 1 ELSE 0
                     ones == m * 0 + 255
                     alpha == m * 127
                 IN  <<uint8(ones * color[1], ColorSteps),
                       uint8(ones * color[2], ColorSteps),
                       uint8(ones * color[3], ColorSteps),
                       uint8(alpha, 1)>>]]

\* np.zeros(self.shape + (4,)): shape is get_sliced_data_shape(), the shape
\* of the whole 2D slice.
zeros4(shape) ==
    [dims |-> shape \o <<4>>,
     pix |-> [p \in Pixels(shape) |-> <<0, 0, 0, 0>>]]

\* SubsetImage._slice.
subset_slice_cached(st, view) ==
    LET got == get_sliced_data(st.cached, st.mask_cache, st.mask,
                               st.computable, view, TRUE)
    IN  IF got.exc = "IncompatibleAttribute" THEN zeros4(st.shape)
        ELSE _rgb_from_mask(got.arr, st.color)

subset_slice(st, view) ==
    LET got == get_sliced_data(st.cached, st.mask_cache, st.mask,
                               st.computable, view, FALSE)
    IN  IF got.exc = "IncompatibleAttribute" THEN zeros4(st.shape)
        ELSE _rgb_from_mask(got.arr, st.color)

\* DataImage._slice.
data_slice(st, view) ==
    get_sliced_data(st.cached, st.data_cache, st.data, TRUE, view, FALSE).arr

\* The record of one call on a wrapper: the call, the wrapper and method
\* when it is one of the forbidden ones, the view asked for, what came back
\* and the exception that left the call.
SQuiet(op) ==
    [op |-> op, wrapper |-> "none", method |-> "none", view |-> <<1, 1>>,
     out |-> None, exc |-> "none"]

\* The wrappers, and the methods both bind to forbidden.
Wrappers == {"DataImage", "SubsetImage"}

ForbiddenMethods ==
    {"get_data", "_get_data", "copy_data", "set_data", "get_array",
     "transfer"}

\* forbidden(*args): it takes any positional arguments and raises
\* ValueError("Forbidden"); a keyword argument does not bind to *args, and
\* the call raises TypeError before the body runs.
forbidden(nargs, kwargs) ==
    IF kwargs # {} THEN "TypeError" ELSE "ValueError: Forbidden"

\* One of the forbidden methods is called on a wrapper, with nargs
\* positional arguments and the keyword arguments kwargs.
forbidden_call(wr, method, nargs, kwargs) ==
    /\ sres' = [SQuiet("forbidden") EXCEPT
                   !.wrapper = wr, !.method = method,
                   !.exc = forbidden(nargs + 1, kwargs)]
    /\ UNCHANGED sstate
    /\ UNCHANGED <<pvars, vvars, msg, lvars, mvars>>

\* SubsetImage._slice(view) is called.
SubsetImage_slice(view) ==
    /\ sres' = [SQuiet("subset_slice") EXCEPT
                   !.view = view, !.out = subset_slice(sstate, view)]
    /\ UNCHANGED sstate
    /\ UNCHANGED <<pvars, vvars, msg, lvars, mvars>>

\* DataImage._slice(view) is called.
DataImage_slice(view) ==
    /\ sres' = [SQuiet("data_slice") EXCEPT
                   !.view = view, !.out = data_slice(sstate, view)]
    /\ UNCHANGED sstate
    /\ UNCHANGED <<pvars, vvars, msg, lvars, mvars>>

\* SubsetImage._rgb_from_mask(mask) is called with the whole mask.
SubsetImage_rgb_from_mask ==
    /\ sres' = [SQuiet("rgb_from_mask") EXCEPT
                   !.out = _rgb_from_mask(sstate.mask, sstate.color)]
    /\ UNCHANGED sstate
    /\ UNCHANGED <<pvars, vvars, msg, lvars, mvars>>

\* Another consumer of the layer state reads with the cache in use: the
\* host keeps what it computed.
cached_read ==
    /\ sstate.computable
    /\ sstate' = [sstate EXCEPT !.cached = TRUE,
                                !.mask_cache = sstate.mask,
                                !.data_cache = sstate.data]
    /\ sres' = SQuiet("cached_read")
    /\ UNCHANGED <<pvars, vvars, msg, lvars, mvars>>

\* The subset changes: another mask, or one that cannot be computed.
mask_set(m, ok) ==
    /\ m \in Arrays(sstate.shape, BOOLEAN)
    /\ <<m, ok>> # <<sstate.mask, sstate.computable>>
    /\ sstate' = [sstate EXCEPT !.mask = m, !.computable = ok]
    /\ sres' = SQuiet("mask_set")
    /\ UNCHANGED <<pvars, vvars, msg, lvars, mvars>>

\* The viewer moves to another slice of the data.
slice_set(d) ==
    /\ d \in Arrays(sstate.shape, 0..MaxValue)
    /\ d # sstate.data
    /\ sstate' = [sstate EXCEPT !.data = d]
    /\ sres' = SQuiet("slice_set")
    /\ UNCHANGED <<pvars, vvars, msg, lvars, mvars>>

\* The layer's colour changes.
color_set(c) ==
    /\ c # sstate.color
    /\ sstate' = [sstate EXCEPT !.color = c]
    /\ sres' = SQuiet("color_set")
    /\ UNCHANGED <<pvars, vvars, msg, lvars, mvars>>

\* ------------------------------------------------------------------- modes
\* The checkable tools that switch the viewer's mode, by the mode name they
\* hand to mode_cb; each has a toggle button in the toolbar.
ModeTools == {"pan", "freepan", "rotate", "contrast", "cuts", "dist", "cmap"}

\* The modes of the bindmap: those of the tools, and some that only a
\* keystroke selects.
ModeNames == ModeTools \cup {"meta", "draw", "naxis"}

\* GingaViewer.mode_actns: mode name -> button. __init__ makes it empty and
\* nothing fills it.
mode_actns == [m \in ModeNames |-> "none"]

\* mode_set_cb: mode_w and the checked buttons after it.
mode_set_cb(actns, mw, chk, modname) ==
    IF modname \in DOMAIN actns /\ actns[modname] # "none"
    THEN LET off == IF mw # "none" /\ mw # actns[modname]
                    THEN chk \ {mw} ELSE chk
         IN  [mode_w |-> actns[modname],
              checked |-> off \cup {actns[modname]}]
    ELSE IF mw # "none"
    THEN [mode_w |-> "none", checked |-> chk \ {mw}]
    ELSE [mode_w |-> mw, checked |-> chk]

\* The mode types of the bindmap.
ModeTypes == {"held", "oneshot", "locked"}

\* The record of one mode callback: what started it, and the mode name and
\* mode type handed to mode_set_cb.
MQuiet(op, modname, mtype) == [op |-> op, modname |-> modname, mtype |-> mtype]

\* The user checks the button of tool t: the toolbar deactivates the active
\* tool (mode_cb(old, False): reset_mode, 'mode-set' with None) and unchecks
\* its button, then t.activate() calls mode_cb(t, True): set_mode, and
\* 'mode-set' with t.
tool_activate(t) ==
    /\ t \notin checked
    /\ LET off == mode_set_cb(mode_actns, mode_w, {}, "none")
           on == mode_set_cb(mode_actns,
                             IF checked # {} THEN off.mode_w ELSE mode_w,
                             (IF checked # {} THEN off.checked ELSE checked)
                                 \cup {t},
                             t)
       IN  /\ mode_w' = on.mode_w
           /\ checked' = on.checked
    /\ kbdmode' = t
    /\ mlast' = MQuiet("activate", t, "locked")
    /\ UNCHANGED <<pvars, vvars, msg, lvars, svars>>

\* The user unchecks the button of the active tool: deactivate() calls
\* mode_cb(t, False).
tool_deactivate(t) ==
    /\ t \in checked
    /\ LET off == mode_set_cb(mode_actns, mode_w, checked \ {t}, "none")
       IN  /\ mode_w' = off.mode_w
           /\ checked' = off.checked
    /\ kbdmode' = "none"
    /\ mlast' = MQuiet("deactivate", "none", "held")
    /\ UNCHANGED <<pvars, vvars, msg, lvars, svars>>

\* A keystroke in the viewer selects mode m (or leaves the mode): the
\* bindmap makes 'mode-set' without mode_cb being called.
key_mode(m, mtype) ==
    /\ m # kbdmode
    /\ m = "none" => mtype = "held"
    /\ LET r == mode_set_cb(mode_actns, mode_w, checked, m)
       IN  /\ mode_w' = r.mode_w
           /\ checked' = r.checked
    /\ kbdmode' = m
    /\ mlast' = MQuiet("key", m, mtype)
    /\ UNCHANGED <<pvars, vvars, msg, lvars, svars>>

\* ------------------------------------------------------------------ viewer
\* The record of one viewer callback: the callback, the tool it was called
\* on, the tag and kind of the shape it was given, the regions handed to
\* apply_roi, the exception that left it.
VQuiet(op) ==
    [op |-> op, tool |-> "none", tag |-> None, kind |-> "none",
     applied |-> <<>>, raised |-> "none"]

\* The draw tools (subclasses of GingaROIMode), by tool_id without 'ginga:'.
ROITools ==
    {"rectangle", "circle", "polygon", "lasso", "path", "xrange", "yrange",
     "pick"}

KeepTools == {"spectrum", "slicer"}

Tools == ROITools \cup KeepTools

\* The draw type each ROI tool hands to _set_roi_mode.
ToolShape ==
    [t \in ROITools |->
        CASE t = "rectangle" -> "rectangle"
          [] t = "circle" -> "circle"
          [] t = "polygon" -> "polygon"
          [] t = "lasso" -> "freepolygon"
          [] t = "path" -> "path"
          [] t = "xrange" -> "xrange"
          [] t = "yrange" -> "yrange"
          [] t = "pick" -> "point"]

\* The draw types the menus of the spectrum and slicer tools offer.
MenuShapes ==
    [t \in KeepTools |->
        IF t = "spectrum"
        THEN {"rectangle", "circle", "freepolygon", "polygon"}
        ELSE {"freepath", "path"}]

Viewer == "self"

\* GingaViewer._set_roi_mode on the canvas.
_set_roi_mode_draws(cv, name, mode) ==
    [cv EXCEPT !.draw_enabled = TRUE,
               !.draw_mode = mode,
               !.draw_context = Viewer,
               !.drawtype = name]

_set_roi_mode(cv, name, mode) ==
    [cv EXCEPT !.draw_enabled = (mode = "draw"),
               !.draw_mode = mode,
               !.draw_context = Viewer,
               !.drawtype = name]

\* canvas.delete_object / delete_object_by_tag, inside try/except where the
\* code has one: the shape leaves the canvas if it is there.
delete_object(objs, tag) == {o \in objs : o.tag # tag}

has_tag(objs, tag) == \E o \in objs : o.tag = tag

\* clear / _clear_path of the spectrum and slicer tools.
tool_clear(ts, objs, t) ==
    IF ts[t].obj # None
    THEN [tool_state |-> [ts EXCEPT ![t].obj = None],
          objects |-> delete_object(objs, ts[t].obj)]
    ELSE [tool_state |-> ts, objects |-> objs]

\* deactivate() of tool t on (canvas, tool_state).
deactivate(cv, ts, t) ==
    IF t \in KeepTools
    THEN LET c == tool_clear(ts, cv.objects, t)
         IN  [canvas |-> _set_roi_mode([cv EXCEPT !.objects = c.objects],
                                       ts[t].shape, "none"),
              tool_state |-> c.tool_state]
    ELSE [canvas |-> _set_roi_mode(cv, ToolShape[t], "none"),
          tool_state |-> ts]

\* A tool is checked in the toolbar: the toolbar deactivates the tool that
\* was active, then activate() installs the new one.
activate(t) ==
    /\ t \in Tools
    /\ t # opn_obj
    /\ LET off == IF opn_obj # "none" THEN deactivate(canvas, tool_state, opn_obj)
                  ELSE [canvas |-> canvas, tool_state |-> tool_state]
       IN  /\ canvas' = _set_roi_mode(off.canvas,
                                      IF t \in ROITools THEN ToolShape[t]
                                      ELSE off.tool_state[t].shape, "draw")
           /\ tool_state' = off.tool_state
    /\ opn_obj' = t
    /\ vlast' = [VQuiet("activate") EXCEPT !.tool = t]
    /\ UNCHANGED <<roi_tag, ntags>>
    /\ UNCHANGED <<pvars, msg, lvars, svars, mvars>>

\* The active tool is unchecked in the toolbar.
deactivate_tool ==
    /\ opn_obj # "none"
    /\ LET off == deactivate(canvas, tool_state, opn_obj)
       IN  /\ canvas' = off.canvas
           /\ tool_state' = off.tool_state
    /\ opn_obj' = "none"
    /\ vlast' = [VQuiet("deactivate") EXCEPT !.tool = opn_obj]
    /\ UNCHANGED <<roi_tag, ntags>>
    /\ UNCHANGED <<pvars, msg, lvars, svars, mvars>>

\* set_roi_tool of the spectrum or slicer tool, from its menu.
set_roi_tool(t, mode) ==
    /\ t \in KeepTools
    /\ mode \in MenuShapes[t]
    /\ mode # tool_state[t].shape
    /\ tool_state' = [tool_state EXCEPT ![t].shape = mode]
    /\ canvas' = _set_roi_mode(canvas, mode, "draw")
    /\ opn_obj' = t
    /\ vlast' = VQuiet("set_roi_tool")
    /\ UNCHANGED <<roi_tag, ntags>>
    /\ UNCHANGED <<pvars, msg, lvars, svars, mvars>>

\* The region of interest a drawn shape converts to, by the shape's kind.
ginga_graphic_to_roi(obj) ==
    CASE obj.kind = "rectangle" -> "RectangularROI"
      [] obj.kind = "circle" -> "CircularROI"
      [] obj.kind \in {"polygon", "freepolygon"} -> "PolygonalROI"
      [] obj.kind \in {"path", "freepath"} -> "Path"
      [] obj.kind = "xrange" -> "XRangeROI"
      [] obj.kind = "yrange" -> "YRangeROI"
      [] obj.kind = "point" -> "PointROI"

\* GingaViewer.apply_roi: the subset state of the region goes to the host's
\* apply_subset_state.
apply_roi(roi) == << [roi |-> roi] >>

\* opn_exec of tool t for the shape obj just drawn: the canvas objects and
\* tool state after it, and the regions applied.
opn_exec_keeps(t, objs, ts, obj) ==
    [objects |-> objs, tool_state |-> ts,
     applied |-> apply_roi(ginga_graphic_to_roi(obj))]

opn_exec(t, objs, ts, obj) ==
    IF t \in KeepTools
    THEN LET c == tool_clear(ts, objs, t)
         IN  [objects |-> c.objects,
              tool_state |-> [c.tool_state EXCEPT ![t].obj = obj.tag],
              applied |-> <<>>]
    ELSE [objects |-> delete_object(objs, obj.tag),
          tool_state |-> ts,
          applied |-> apply_roi(ginga_graphic_to_roi(obj))]

\* The user finishes drawing a shape: the canvas adds it under a new tag and
\* makes 'draw-event', which runs _apply_roi_cb.
_apply_roi_cb ==
    /\ canvas.draw_enabled
    /\ ntags < MaxTags
    /\ LET tag == ntags + 1
           obj == [tag |-> tag, kind |-> canvas.drawtype]
           objs == canvas.objects \cup {obj}
       IN  /\ ntags' = tag
           /\ IF canvas.draw_context # Viewer
              THEN /\ canvas' = [canvas EXCEPT !.objects = objs]
                   /\ vlast' = [VQuiet("draw_event") EXCEPT
                                   !.tag = tag, !.kind = obj.kind]
                   /\ UNCHANGED <<roi_tag, tool_state>>
              ELSE IF opn_obj = "none"
              THEN /\ canvas' = [canvas EXCEPT
                                    !.objects = delete_object(objs, tag)]
                   /\ roi_tag' = None
                   /\ vlast' = [VQuiet("draw_event") EXCEPT
                                   !.tag = tag, !.kind = obj.kind]
                   /\ UNCHANGED tool_state
              ELSE LET r == opn_exec(opn_obj, objs, tool_state, obj)
                   IN  /\ canvas' = [canvas EXCEPT !.objects = r.objects]
                       /\ tool_state' = r.tool_state
                       /\ roi_tag' = tag
                       /\ vlast' = [VQuiet("draw_event") EXCEPT
                                       !.tag = tag, !.kind = obj.kind,
                                       !.applied = r.applied]
    /\ UNCHANGED opn_obj
    /\ UNCHANGED <<pvars, msg, lvars, svars, mvars>>

\* try: canvas.delete_object_by_tag(tag); except: pass. The call raises
\* KeyError when nothing carries the tag (None included), and the handler
\* drops it.
try_delete_unguarded(objs, tag) ==
    [objects |-> delete_object(objs, tag),
     raised |-> IF has_tag(objs, tag) THEN "none" ELSE "KeyError"]

try_delete(objs, tag) ==
    [objects |-> delete_object(objs, tag), raised |-> "none"]

\* opn_init of tool t, handed the tag of the shape drawn before: a ROI tool
\* deletes that shape if it still is there, the spectrum and slicer tools
\* clear the shape they kept.
opn_init(t, objs, ts, tag) ==
    IF t \in KeepTools
    THEN LET c == tool_clear(ts, objs, t)
         IN  [objects |-> c.objects, tool_state |-> c.tool_state,
              raised |-> "none"]
    ELSE IF tag # None
    THEN LET d == try_delete(objs, tag)
         IN  [objects |-> d.objects, tool_state |-> ts, raised |-> d.raised]
    ELSE [objects |-> objs, tool_state |-> ts, raised |-> "none"]

\* _clear_roi_cb hands roi_tag to the tool's opn_init, or deletes that shape
\* itself when no tool is installed.
_clear_roi_cb ==
    /\ LET r == IF opn_obj # "none"
                THEN opn_init(opn_obj, canvas.objects, tool_state, roi_tag)
                ELSE LET d == try_delete(canvas.objects, roi_tag)
                     IN  [objects |-> d.objects, tool_state |-> tool_state,
                          raised |-> d.raised]
       IN  /\ canvas' = [canvas EXCEPT !.objects = r.objects]
           /\ tool_state' = r.tool_state
           /\ vlast' = [VQuiet("draw_down") EXCEPT !.tag = roi_tag,
                                                   !.tool = opn_obj,
                                                   !.raised = r.raised]
    /\ UNCHANGED <<opn_obj, roi_tag, ntags>>
    /\ UNCHANGED <<pvars, msg, lvars, svars, mvars>>

\* The user presses down to draw: a canvas with drawing enabled makes
\* 'draw-down', which runs _clear_roi_cb.
draw_down == canvas.draw_enabled /\ _clear_roi_cb

\* ------------------------------------------------------------ specifications
\* The plugin after __init__, build_gui and start(): no session, GUI up.
PluginInit ==
    /\ glue_app = None
    /\ napps = 0
    /\ live = {}
    /\ subs = {}
    /\ dc = [a \in Apps |-> <<>>]
    /\ datasrc = [l \in Labels |-> NoObj]
    /\ data_names = <<>>
    /\ w = build_gui
    /\ gui_up = TRUE
    /\ last = Quiet("init")

\* The viewer after __init__: no tool, nothing drawn, drawing disabled.
ViewerInit ==
    /\ opn_obj = "none"
    /\ roi_tag = None
    /\ canvas = [draw_enabled |-> FALSE, draw_mode |-> "none",
                 draw_context |-> "none", drawtype |-> "none", objects |-> {}]
    /\ tool_state = [t \in KeepTools |->
                        [shape |-> IF t = "spectrum" THEN "rectangle"
                                   ELSE "freepath",
                         obj |-> None]]
    /\ ntags = 0
    /\ vlast = VQuiet("init")

NoMsg == [state |-> "none"]

\* The artists after __init__, for a layer state that is visible or not and
\* has some z-order: their properties are the state's, nothing is on the
\* canvas, and a LayerArtistBase starts enabled.
LayerInit ==
    /\ layer_state \in [Artists -> [visible : BOOLEAN, zorder : ZOrders]]
    /\ props = [a \in Artists |->
                   [visible |-> layer_state[a].visible,
                    zorder |-> layer_state[a].zorder,
                    enabled |-> TRUE, disabled_for |-> "none"]]
    /\ tagged = [t \in CanvasTags |-> NoTagged]
    /\ mask_ok \in BOOLEAN
    /\ img_tag \in HostImageTags
    /\ alast = AQuiet("init")
    /\ collection = {}
    /\ shown = {}
    /\ viewer = "none"

\* No artist yet: a viewer without layers.
NoLayers ==
    /\ layer_state = [a \in Artists |-> [visible |-> TRUE, zorder |-> 1]]
    /\ props = [a \in Artists |->
                   [visible |-> TRUE, zorder |-> 1,
                    enabled |-> TRUE, disabled_for |-> "none"]]
    /\ tagged = [t \in CanvasTags |-> NoTagged]
    /\ mask_ok = TRUE
    /\ img_tag = "__image"
    /\ alast = AQuiet("init")
    /\ collection = {}
    /\ shown = {}
    /\ viewer = "none"

\* A layer state of the given slice shape, mask, colour and computability,
\* over dark data, with nothing cached by the host.
fresh_state(shape, m, c, ok) ==
    LET dark == [dims |-> shape, pix |-> [p \in Pixels(shape) |-> 0]]
    IN  [shape |-> shape, mask |-> m, data |-> dark, color |-> c,
         computable |-> ok,
         cached |-> FALSE, mask_cache |-> m, data_cache |-> dark]

\* No wrapper yet: one dark, unselected pixel.
NoImages ==
    /\ sstate = fresh_state(<<1, 1>>,
                            [dims |-> <<1, 1>>,
                             pix |-> [p \in Pixels(<<1, 1>>) |-> FALSE]],
                            [i \in 1..3 |-> 0], TRUE)
    /\ sres = SQuiet("init")

\* The viewer's modes after __init__: no mode, no button checked.
ModesInit ==
    /\ checked = {}
    /\ kbdmode = "none"
    /\ mode_w = "none"
    /\ mlast = MQuiet("init", "none", "held")

Init ==
    /\ PluginInit
    /\ ViewerInit
    /\ msg = NoMsg
    /\ NoLayers
    /\ NoImages
    /\ ModesInit

Next ==
    \/ \E a \in Apps, d \in HubDatasets : HubDataAdded(a, d)
    \/ \E a \in Apps, i \in 1..MaxData : HubDataRemoved(a, i)
    \/ \E a \in Apps : HubAppClosed(a)
    \/ start_glue_cb
    \/ \E del_raises \in BOOLEAN : press_stop_glue(del_raises)
    \/ \E channel \in BOOLEAN : press_put_data(channel, NoObj, "none")
    \/ \E image \in ChannelObjects, fail \in PutFailures :
          press_put_data(TRUE, image, fail)
    \/ \E channel \in BOOLEAN, add_fails \in BOOLEAN :
          press_get_data(channel, add_fails)
    \/ \E i \in 0..(MaxData - 1) : select_item(i)
    \/ close
    \/ start

Spec == Init /\ [][Next]_vars

\* A session that comes and goes (Start Glue, datasets added by the
\* application's user, the application closed by its user), with the
\* Stop, Put and Get handlers running in every state, whatever the buttons
\* show and whether a session is there or not.
NextClosed ==
    \/ start_glue_cb
    \/ \E a \in Apps, d \in HubDatasets : HubDataAdded(a, d)
    \/ \E a \in Apps : HubAppClosed(a)
    \/ \E del_raises \in BOOLEAN : stop_glue_cb(del_raises)
    \/ \E channel \in BOOLEAN, image \in ChannelObjects \cup {NoObj},
          fail \in PutFailures : put_data_cb(channel, image, fail)
    \/ \E channel \in BOOLEAN, add_fails \in BOOLEAN :
          get_data_cb(channel, add_fails)

SpecClosed == Init /\ [][NextClosed]_vars

\* put_data_cb on its own: it runs in every state of a session that is
\* started, closed by the user or stopped, with every channel, image and
\* failure of the hosts.
NextPut ==
    \/ start_glue_cb
    \/ \E a \in Apps : HubAppClosed(a)
    \/ \E del_raises \in BOOLEAN : press_stop_glue(del_raises)
    \/ \E channel \in BOOLEAN, image \in ChannelObjects \cup {NoObj},
          fail \in PutFailures : put_data_cb(channel, image, fail)

SpecPut == Init /\ [][NextPut]_vars

NextROI ==
    \/ \E t \in Tools : activate(t)
    \/ deactivate_tool
    \/ \E t \in KeepTools, mode \in {"rectangle", "circle", "freepolygon",
                                     "polygon", "freepath", "path"} :
          set_roi_tool(t, mode)
    \/ _apply_roi_cb
    \/ draw_down

SpecROI == Init /\ [][NextROI]_vars

\* The draw tools in GingaViewer.tools, the toolbar of the viewer
\* ('ginga:spectrum' is left out of it, 'ginga:path' and 'ginga:pick' are
\* not listed).
ViewerTools ==
    {"rectangle", "circle", "polygon", "lasso", "xrange", "yrange", "slicer"}

\* The viewer with the tools of its toolbar, and _clear_roi_cb running
\* whether drawing is enabled or not (a tool installed or none).
NextDown ==
    \/ \E t \in ViewerTools : activate(t)
    \/ deactivate_tool
    \/ \E mode \in {"freepath", "path"} : set_roi_tool("slicer", mode)
    \/ _apply_roi_cb
    \/ _clear_roi_cb

SpecDown == Init /\ [][NextDown]_vars

\* A listener with an empty datasrc is handed one dataset-added message.
InitAdded ==
    /\ PluginInit
    /\ ViewerInit
    /\ NoLayers
    /\ NoImages
    /\ ModesInit
    /\ msg \in {[state |-> "sent", data |-> d] : d \in Datasets}

\* The hub calls _data_added_cb with the message.
deliver_added ==
    /\ msg.state = "sent"
    /\ LET res == _data_added_cb(datasrc, msg.data)
       IN  /\ datasrc' = res.datasrc
           /\ msg' = [state |-> "handled", data |-> msg.data,
                      exc |-> res.exc, fired |-> res.fired]
    /\ UNCHANGED <<glue_app, napps, live, subs, dc, data_names, w, gui_up,
                   last>>
    /\ UNCHANGED <<vvars, lvars, svars, mvars>>

NextAdded == deliver_added

SpecAdded == InitAdded /\ [][NextAdded]_vars

InitLayers ==
    /\ PluginInit
    /\ ViewerInit
    /\ msg = NoMsg
    /\ LayerInit
    /\ NoImages
    /\ ModesInit

NextLayers ==
    \/ \E a \in Artists, v \in BOOLEAN : set_visible(a, v)
    \/ \E a \in Artists, z \in ZOrders : set_zorder(a, z)
    \/ viewer_state_changed
    \/ \E ok \in BOOLEAN : mask_changed(ok)
    \/ \E a \in Artists : remove(a)

SpecLayers == InitLayers /\ [][NextLayers]_vars

\* An application whose data collection holds some datasets, and no viewer
\* yet; the image layers are visible or not, the host's image tag is the
\* artist's or another.
InitViewer ==
    /\ PluginInit
    /\ ViewerInit
    /\ msg = NoMsg
    /\ layer_state \in [Artists -> [visible : BOOLEAN, zorder : {1}]]
    /\ props = [a \in Artists |->
                   [visible |-> layer_state[a].visible,
                    zorder |-> layer_state[a].zorder,
                    enabled |-> TRUE, disabled_for |-> "none"]]
    /\ tagged = [t \in CanvasTags |-> NoTagged]
    /\ mask_ok = TRUE
    /\ img_tag \in HostImageTags
    /\ alast = AQuiet("init")
    /\ collection \in SUBSET ViewerData
    /\ shown = {}
    /\ viewer = "none"
    /\ NoImages
    /\ ModesInit

NextViewer ==
    \/ \E d \in ViewerData : new_data_viewer(d)
    \/ \E d \in ViewerData : add_data(d)
    \/ \E d \in ViewerData : dc_append(d)
    \/ \E d \in ViewerData : dc_remove(d)

SpecViewer == InitViewer /\ [][NextViewer]_vars

\* A SubsetImage over a layer state of some slice shape, mask and colour,
\* whose mask can be computed or not; nothing cached.
InitSlices ==
    /\ PluginInit
    /\ ViewerInit
    /\ msg = NoMsg
    /\ NoLayers
    /\ ModesInit
    /\ \E shape \in Shapes :
          \E m \in Arrays(shape, BOOLEAN), c \in Colors, ok \in BOOLEAN :
              sstate = fresh_state(shape, m, c, ok)
    /\ sres = SQuiet("init")

NextSlices ==
    \/ \E view \in Views : SubsetImage_slice(view)
    \/ SubsetImage_rgb_from_mask

SpecSlices == InitSlices /\ [][NextSlices]_vars

\* The wrappers over a one-pixel slice whose mask, data and colour change
\* while the host caches what it is asked with the cache in use.
InitCache ==
    /\ PluginInit
    /\ ViewerInit
    /\ msg = NoMsg
    /\ NoLayers
    /\ NoImages
    /\ ModesInit

NextCache ==
    \/ \E view \in Views : SubsetImage_slice(view)
    \/ \E view \in Views : DataImage_slice(view)
    \/ cached_read
    \/ \E m \in Arrays(<<1, 1>>, BOOLEAN), ok \in BOOLEAN : mask_set(m, ok)
    \/ \E d \in Arrays(<<1, 1>>, 0..MaxValue) : slice_set(d)
    \/ \E c \in Colors : color_set(c)
    \/ \E wr \in Wrappers, method \in ForbiddenMethods, nargs \in 0..MaxArgs,
          kwargs \in SUBSET {"astype"} :
          forbidden_call(wr, method, nargs, kwargs)

SpecCache == InitCache /\ [][NextCache]_vars

NextModes ==
    \/ \E t \in ModeTools : tool_activate(t)
    \/ \E t \in ModeTools : tool_deactivate(t)
    \/ \E m \in ModeNames \cup {"none"}, mtype \in ModeTypes :
          key_mode(m, mtype)

SpecModes == Init /\ [][NextModes]_vars

\* ------------------------------------------------------------------ claims
ResetGUI ==
    /\ w.start_glue
    /\ ~w.stop_glue
    /\ ~w.put_data
    /\ ~w.get_data
    /\ w.dataitem = <<>>
    /\ data_names = <<>>

\* C1: a handled dataset-added message for a dataset labelled L fires
\* 'data_in' exactly once, with a table if ndim = 1 and an image otherwise,
\* named L and stored in datasrc under L before the callback runs (get_data(L)
\* inside the callback returns that object).
C1_AddedStoredThenFired ==
    last.op = "data_added" =>
        /\ Len(last.fired) = 1
        /\ last.fired[1].cb = "data_in"
        /\ last.fired[1].obj.kind = (IF last.ndim = 1 THEN "table" ELSE "image")
        /\ last.fired[1].obj.name = last.label
        /\ last.fired[1].stored = last.fired[1].obj
        /\ datasrc[last.label] = last.fired[1].obj

\* C2: a handled dataset-removed message for a dataset labelled L leaves no
\* entry under L in datasrc and fires 'data_out' exactly once with the
\* object that was stored under L.
C2_RemovedThenFired ==
    last.op = "data_removed" =>
        /\ last.raised = "none"
        /\ ~datasrc_has(datasrc, last.label)
        /\ Len(last.fired) = 1
        /\ last.fired[1].cb = "data_out"
        /\ last.fired[1].obj.name = last.label

\* C3 as stated: after a 'draw-event' with any tool installed and the draw
\* context this viewer, the drawn shape is off the canvas and apply_roi was
\* invoked exactly once, with the region of that shape.
C3_AnyToolApplies ==
    (vlast.op = "draw_event" /\ opn_obj # "none"
        /\ canvas.draw_context = Viewer) =>
        /\ ~has_tag(canvas.objects, vlast.tag)
        /\ vlast.applied = apply_roi(ginga_graphic_to_roi([kind |-> vlast.kind]))

\* C3 (amended): after a 'draw-event' with one of the tools that use
\* GingaROIMode.opn_exec installed (rectangle, circle, polygon, lasso, path,
\* xrange, yrange, pick) and the draw context this viewer, the drawn shape is
\* off the canvas and apply_roi was invoked exactly once, with the region of
\* that shape.
C3_ROIToolApplies ==
    (vlast.op = "draw_event" /\ opn_obj \in ROITools
        /\ canvas.draw_context = Viewer) =>
        /\ ~has_tag(canvas.objects, vlast.tag)
        /\ Len(vlast.applied) = 1
        /\ vlast.applied[1].roi = ginga_graphic_to_roi([kind |-> vlast.kind])

C3_Witness ==
    /\ vlast.op = "draw_event"
    /\ opn_obj = "lasso"
    /\ canvas.draw_context = Viewer
    /\ vlast.applied = << [roi |-> "PolygonalROI"] >>
    /\ vlast.tag = 2

\* C4: an exception raised inside put_data_cb's send never leaves
\* put_data_cb, is shown through show_error, and add_data is called at most
\* once per press.
C4_PutCatches ==
    last.op = "put_data" =>
        /\ last.raised = "none"
        /\ last.add_calls <= 1
        /\ last.failed # "none" =>
              (Len(last.shown) >= 1 /\ last.shown[1] = SendError)

C4_Witness ==
    /\ last.op = "put_data"
    /\ last.failed = "add_data"
    /\ last.add_calls = 1

\* C5: an error raised during Get Data (the name lookup, the fetch from
\* datasrc, or add_image) does not leave get_data_cb and is shown to the
\* user.
C5_GetCatches ==
    (last.op = "get_data" /\ last.failed # "none") =>
        /\ last.raised = "none"
        /\ Len(last.shown) >= 1

\* C6: after Close, the Glue session is closed too: glue_app is None and no
\* application of the plugin is left running.
C6_CloseStopsGlue ==
    last.op = "close" => (glue_app = None /\ live = {})

C8_StartStarts ==
    last.op = "start_glue" =>
        /\ glue_app # None
        /\ glue_app = napps
        /\ glue_app \in live
        /\ dc[glue_app] = <<>>
        /\ \A m \in {AddMsg, DeleteMsg, ClosedMsg} :
              <<hub_of(glue_app), m>> \in subs
        /\ ~w.start_glue
        /\ w.stop_glue
        /\ w.put_data
        /\ w.get_data = last.pre_get

C8_Witness ==
    /\ last.op = "start_glue"
    /\ glue_app = 2
    /\ w.get_data

\* C9: after error_no_glue, from any state, Start Glue is enabled, Stop
\* Glue, Put Data and Get Data are disabled, the drop-down and data_names
\* are empty, and 'No glue session running!' was shown if and only if
\* verbose was true.
C9_ErrorNoGlueResets ==
    last.reset # "none" =>
        /\ ResetGUI
        /\ (\E i \in 1..Len(last.shown) : last.shown[i] = NoSession)
              <=> (last.reset = "verbose")

C9_Witness ==
    /\ last.reset = "verbose"
    /\ last.op = "put_data"
    /\ last.fired # <<>>

\* C10: _data_added_cb completes without raising for every dataset, and
\* produces a wrapped image or table.
C10_ConversionTotal ==
    msg.state = "handled" =>
        /\ msg.exc = "none"
        /\ datasrc[msg.data.label].kind \in {"image", "table"}

\* C11: while a session runs, datasrc holds no object of an earlier session,
\* and Get Data adds to the channel only objects of the running session.
C11_NoEarlierSession ==
    glue_app # None =>
        /\ \A l \in Labels :
              datasrc_has(datasrc, l) => datasrc[l].app = glue_app
        /\ last.op = "get_data" /\ last.added # NoObj =>
              last.added.app = glue_app

\* C12: after every update() of an artist, the object carrying the artist's
\* tag is on the canvas if and only if state.visible is true.
C12_PresenceFollowsVisible ==
    \A a \in alast.updated :
        has_object(tagged, Tag(a)) <=> layer_state[a].visible

\* C13: after every update() that leaves the artist's object on the canvas,
\* the first one included, the object's z-order is state.zorder; and the
\* artist's zorder and visible always equal the state's.
C13_ZOrderFollowsState ==
    /\ \A a \in alast.updated :
          has_object(tagged, Tag(a)) =>
              tagged[Tag(a)].zorder = layer_state[a].zorder
    /\ \A a \in Artists :
          /\ props[a].zorder = layer_state[a].zorder
          /\ props[a].visible = layer_state[a].visible

\* C14: SubsetImage._slice(view) returns a 4-channel array whose two spatial
\* dimensions are those of the requested view of the mask; when the mask
\* cannot be computed it is that same shape, all zeros.
C14_SliceHasViewShape ==
    sres.op = "subset_slice" =>
        /\ sres.out.dims = view_shape(sstate.shape, sres.view) \o <<4>>
        /\ ~sstate.computable =>
              \A p \in DOMAIN sres.out.pix :
                  sres.out.pix[p] = <<0, 0, 0, 0>>

\* C15: _rgb_from_mask of a boolean mask has alpha 127 at every selected
\* pixel and 0 at every other, and R, G, B at every pixel are the colour's
\* components scaled to 0..255; every channel value is within 0..255.
C15_RGBFromMask ==
    sres.op = "rgb_from_mask" =>
        /\ sres.out.dims = sstate.shape \o <<4>>
        /\ DOMAIN sres.out.pix = Pixels(sstate.shape)
        /\ \A p \in Pixels(sstate.shape) :
              /\ sres.out.pix[p][4] = IF sstate.mask.pix[p] THEN 127 ELSE 0
              /\ \A c \in 1..3 :
                    sres.out.pix[p][c] =
                        (255 * sstate.color[c]) \div ColorSteps
              /\ \A c \in 1..4 : sres.out.pix[p][c] \in 0..255

C15_Witness ==
    /\ sres.op = "rgb_from_mask"
    /\ \E p, q \in Pixels(sstate.shape) :
          sstate.mask.pix[p] /\ ~sstate.mask.pix[q]
    /\ sstate.color[1] = 1
    /\ sstate.color[2] = ColorSteps

\* C16: every _slice call returns what the layer state gives at the time of
\* the call, whatever the host cached before.
C16_NeverCached ==
    /\ sres.op = "subset_slice" =>
          sres.out =
              IF sstate.computable
              THEN _rgb_from_mask(take_view(sstate.mask, sres.view),
                                  sstate.color)
              ELSE zeros4(sstate.shape)
    /\ sres.op = "data_slice" =>
          sres.out = take_view(sstate.data, sres.view)

C16_Witness ==
    /\ sres.op = "subset_slice"
    /\ sstate.cached
    /\ sstate.mask_cache # sstate.mask
    /\ sstate.computable

\* C17: after activate() of a ROI draw tool the canvas has drawing enabled,
\* draw mode 'draw', the tool's shape name as draw type (freepolygon for
\* lasso, point for pick, the tool's own name otherwise) and the tool is
\* viewer.opn_obj; after its deactivate() drawing is disabled, the draw mode
\* is None and viewer.opn_obj is None.
C17_ModeForwarded ==
    vlast.tool \in ROITools =>
        /\ vlast.op = "activate" =>
              /\ canvas.draw_enabled
              /\ canvas.draw_mode = "draw"
              /\ canvas.drawtype =
                    CASE vlast.tool = "lasso" -> "freepolygon"
                      [] vlast.tool = "pick" -> "point"
                      [] OTHER -> vlast.tool
              /\ opn_obj = vlast.tool
        /\ vlast.op = "deactivate" =>
              /\ ~canvas.draw_enabled
              /\ canvas.draw_mode = "none"
              /\ opn_obj = "none"

C17_Witness ==
    /\ vlast.op = "deactivate"
    /\ vlast.tool = "lasso"
    /\ canvas.drawtype = "freepolygon"

\* C18: whenever Get Data can be pressed the drop-down entries are exactly
\* data_names in the same order, and a Get Data press with a current
\* channel (whose add_image does not fail) adds to it the object stored in
\* the listener under the selected name.
C18_GetDeliversSelected ==
    /\ gui_up /\ w.get_data => w.dataitem = data_names
    /\ /\ last.op = "get_data"
       /\ last.shown = <<>>
       /\ last.failed # "add_image"
       => /\ py_index(data_names, w.index).exc = "none"
          /\ datasrc_has(datasrc, py_index(data_names, w.index).name)
          /\ last.added = datasrc[py_index(data_names, w.index).name]

\* C19: after mode_set_cb(modname), however the mode was initiated, at most
\* one mode button is checked: the button of modname when the toolbar has
\* one (the tool's own, or one registered in mode_actns), none otherwise;
\* and mode_w is the button registered for modname, None if none is.
C19_ButtonsReflectMode ==
    mlast.op # "init" =>
        /\ Cardinality(checked) <= 1
        /\ checked =
              IF mlast.modname \in ModeNames
                 /\ mode_actns[mlast.modname] # "none"
              THEN {mode_actns[mlast.modname]}
              ELSE IF mlast.modname \in ModeTools THEN {mlast.modname}
              ELSE {}
        /\ mode_w =
              IF mlast.modname \in ModeNames
              THEN mode_actns[mlast.modname] ELSE "none"

\* C20: get_data, _get_data, copy_data, set_data, get_array and transfer of
\* a DataImage or SubsetImage raise ValueError('Forbidden') in every state
\* and with any arguments.
C20_ForbiddenRaises ==
    sres.op = "forbidden" => sres.exc = "ValueError: Forbidden"


\* C22: in a running session every name listed in data_names is a key of
\* the listener's datasrc, and every dataset-removed notification finds its
\* entry, also when two datasets of the collection share a label.
C22_NamesAreKeys ==
    /\ glue_app # None =>
           \A i \in 1..Len(data_names) : datasrc_has(datasrc, data_names[i])
    /\ last.op = "data_removed" => last.raised # "KeyError"


\* C23: a heard application-closed notification leaves glue_app None and the
\* GUI reset without an error shown; while glue_app is None, stop_glue_cb
\* changes nothing and shows nothing, and put_data_cb and get_data_cb only
\* show 'No glue session running!' (no add_data call, no object added, the
\* data collections and datasrc as they were).
C23_ClosedIsNoSession ==
    /\ [](last.op = "app_closed" =>
             /\ glue_app = None
             /\ ResetGUI
             /\ last.shown = <<>>
             /\ last.raised = "none")
    /\ [][(glue_app = None /\ last'.op \in {"stop_glue", "put_data", "get_data"})
             => /\ glue_app' = None
                /\ ResetGUI'
                /\ dc' = dc /\ datasrc' = datasrc /\ live' = live
                /\ last'.raised = "none"
                /\ last'.add_calls = 0
                /\ last'.added = NoObj
                /\ IF last'.op = "stop_glue"
                   THEN last'.shown = <<>> /\ w' = w /\ data_names' = data_names
                   ELSE last'.shown = <<NoSession>>]_vars

C23_Witness ==
    /\ last.op \in {"put_data", "get_data", "stop_glue"}
    /\ last.reset # "none"
    /\ last.failed = "none"
    /\ napps > 0
    /\ glue_app = None
    /\ \E l \in Labels : datasrc_has(datasrc, l)


\* C24: put_data_cb without a Glue session, without a current channel or
\* without data in the current channel shows the error of that case (the
\* session's first, then the channel's, then the image's), calls add_data
\* zero times and leaves the data collections as they were; when it does
\* send, what reaches the collection is the channel's current image or
\* table, and nothing else.
C24_PutOnlyActive ==
    [][last'.op = "put_data" =>
         \A channel \in BOOLEAN, image \in ChannelObjects \cup {NoObj},
            fail \in PutFailures :
            put_data_cb(channel, image, fail) =>
                IF glue_app = None
                THEN /\ last'.shown = <<NoSession>>
                     /\ last'.add_calls = 0
                     /\ dc' = dc
                ELSE IF ~channel
                THEN /\ last'.shown = <<"No active channel!">>
                     /\ last'.add_calls = 0
                     /\ dc' = dc
                ELSE IF image = NoObj
                THEN /\ last'.shown = <<"No data in channel">>
                     /\ last'.add_calls = 0
                     /\ dc' = dc
                ELSE \/ dc' = dc
                     \/ dc' = [dc EXCEPT ![glue_app] = Append(@, image.name)]
      ]_vars

C24_Witness ==
    /\ last.op = "put_data"
    /\ last.shown = <<"No data in channel">>
    /\ glue_app # None
    /\ Len(dc[glue_app]) > 0


\* C25: after every update() of the subset artist, the artist is enabled
\* exactly if the mask of the first pixel could be computed, and when it
\* could not, it is disabled with the attributes of the exception recorded.
C25_EnabledFollowsMask ==
    "subset" \in alast.updated =>
        /\ props["subset"].enabled = mask_ok
        /\ props["subset"].disabled_for =
               (IF mask_ok THEN "none" ELSE "attributes")

C25_Witness ==
    /\ "subset" \in alast.updated
    /\ ~mask_ok
    /\ ~props["subset"].enabled
    /\ ~layer_state["subset"].visible

\* C26: the canvas never holds more than one object under an artist's tag
\* (nor under the host's image tag), and an update() of all artists that
\* follows one with the state unchanged leaves the objects on the canvas
\* as they were.
C26_AddedOnce ==
    /\ [](\A t \in CanvasTags : tagged[t].n <= 1)
    /\ [][(alast.updated = Artists /\ alast'.op = "viewer_state")
             => \A t \in CanvasTags :
                    /\ tagged'[t].on = tagged[t].on
                    /\ tagged'[t].n = tagged[t].n
                    /\ tagged'[t].img = tagged[t].img]_vars

C26_Witness ==
    /\ alast.op = "viewer_state"
    /\ tagged[SubsetTag].on
    /\ tagged[img_tag].on
    /\ tagged[SubsetTag].zorder = layer_state["subset"].zorder


\* C27: _clear_roi_cb completes without an exception in every state (a
\* tool installed or none, roi_tag None, naming a shape on the canvas or
\* naming one already deleted), and after it the shape roi_tag names and
\* the shape the installed tool kept are off the canvas.
C27_DrawDownClears ==
    vlast.op = "draw_down" =>
        /\ vlast.raised = "none"
        /\ ~has_tag(canvas.objects, roi_tag)
        /\ opn_obj \in KeepTools => tool_state[opn_obj].obj = None

C27_Witness ==
    /\ vlast.op = "draw_down"
    /\ opn_obj = "slicer"
    /\ roi_tag # None
    /\ ntags = MaxTags
    /\ canvas.objects = {}


====
